---- MODULE Spec2Model ----
(***************************************************************************)
(* AUR dependency resolution (aura-core, aur/dependencies.rs).             *)
(*                                                                         *)
(* Package names and dependency strings are sequences of one-character     *)
(* strings, so that strip_version is a real computation on the text.       *)
(* Option<T> is a sequence of length at most one.                          *)
(***************************************************************************)
EXTENDS Naturals, Integers, Sequences, FiniteSets, Bags, TLC

VARIABLES
    world,      \* the databases, the AUR and the requested batch of this run
    clones,     \* directories present under clone_dir
    pool,       \* idle connections of the r2d2 pool
    res,        \* the shared Resolution behind the Mutex
    lock,       \* the call holding the Mutex's guard, if any
    tasks,      \* the resolve_one calls, keyed by their path in the call tree;
                \* snap is history: the shared state a call saw at its seen check
    rpc,        \* position of resolve: "start", "collect", "returned"
    rerrs,      \* errors collected by resolve's Validated, in completion order
    ret,        \* the value resolve returned
    raised,     \* history: bag of the errors raised by resolve_one calls
    fetched,    \* history: names handed to pull_or_clone
    work,       \* history: bag of the names whose classification was inserted
    sv_in,      \* strip_version: the argument
    sv_out,     \* strip_version: the returned string, once called
    bo_in,      \* build_order: the argument
    bo_pc,      \* build_order: "idle", "returned", "panicked"
    bo_out      \* build_order: the returned groups

vars == <<world, clones, pool, res, lock, tasks, rpc, rerrs, ret, raised, fetched,
          work, sv_in, sv_out, bo_in, bo_pc, bo_out>>

rvars == <<world, clones, pool, res, lock, tasks, rpc, rerrs, ret, raised, fetched, work>>

(***************************************************************************)
(* Bounds of the model.                                                    *)
(***************************************************************************)
\* deepest nesting of resolve_one calls that is followed
MaxDepth == 5
\* connections of the pool handed to resolve
PoolSize == 2
\* longest string given to strip_version on its own
MaxLen == 4

Chars == {"a", "1", "=", ">"}

None == << >>
Some(x) == <<x>>

RECURSIVE SeqOfSet(_)
SeqOfSet(S) ==
    IF S = {} THEN << >>
    ELSE LET x == CHOOSE y \in S : TRUE IN <<x>> \o SeqOfSet(S \ {x})

Range(s) == {s[i] : i \in DOMAIN s}

(***************************************************************************)
(* strip_version: split_once(['=', '>']) and keep the left part.           *)
(***************************************************************************)
\* (variant: only '=' is taken for a version marker)
IsMarkerEqOnly(c) == c = "="

IsMarker(c) == c \in {"=", ">"}

\* str::split_once: the text before the first character the pattern matches,
\* or nothing when no character matches.
RECURSIVE SplitOnceLeft(_)
SplitOnceLeft(stri) ==
    IF stri = << >> THEN None
    ELSE IF IsMarker(Head(stri)) THEN Some(<< >>)
    ELSE LET rest == SplitOnceLeft(Tail(stri))
         IN  IF rest = None THEN None ELSE Some(<<Head(stri)>> \o rest[1])

strip_version(stri) ==
    LET sp == SplitOnceLeft(stri)
    IN  IF sp = None THEN stri ELSE sp[1]

(***************************************************************************)
(* The collaborators: libalpm's databases, the AUR RPC (faur), the clone   *)
(* directory and the .SRCINFO files, by their contracts.                   *)
(***************************************************************************)
\* alpm parses a dependency string into a name and a version constraint;
\* only the name is modelled.
RECURSIVE DepName(_)
DepName(dep) ==
    IF dep = << >> \/ Head(dep) \in {"=", ">", "<"} THEN << >>
    ELSE <<Head(dep)>> \o DepName(Tail(dep))

\* Db::pkg: the package of exactly that name.
DbPkg(pkgs, name) == \E i \in DOMAIN pkgs : pkgs[i].name = name

\* find_satisfier: the first package of that name, else the first that
\* provides it.
FindSatisfier(pkgs, dep) ==
    LET n    == DepName(dep)
        lit  == {i \in DOMAIN pkgs : pkgs[i].name = n}
        prov == {i \in DOMAIN pkgs : n \in pkgs[i].provides}
        Min(S) == CHOOSE i \in S : \A j \in S : i <= j
    IN  IF lit # {} THEN Some(pkgs[Min(lit)])
        ELSE IF prov # {} THEN Some(pkgs[Min(prov)])
        ELSE None

\* faur::info: the records of exactly that name; the fetch may fail.
FaurInfo(db, pkg) == SelectSeq(db.aur, LAMBDA p : p.name = pkg)

\* faur::search: the records the search term matches.
FaurSearch(db, pkg) ==
    SelectSeq(db.aur, LAMBDA p : p.name = pkg \/ pkg \in p.provides)

\* super::is_aur_package_fast: a clone of that name exists in clone_dir.
is_aur_package_fast(cl, pkg) == pkg \in cl

\* Srcinfo::parse_file(path/.SRCINFO)
ParseFile(db, dir) ==
    LET fs == {m \in db.srcinfo : m.dir = dir}
    IN  IF fs = {} THEN None
        ELSE LET m == CHOOSE x \in fs : TRUE IN IF m.ok THEN Some(m) ELSE None

(***************************************************************************)
(* Errors (enum Error<E>).                                                 *)
(***************************************************************************)
MkErr(kind, pkg, par, es) == [kind |-> kind, pkg |-> pkg, par |-> par, es |-> es]
ErrR2D2 == MkErr("R2D2", << >>, None, << >>)
ErrSrcinfo(dir) == MkErr("Srcinfo", dir, None, << >>)
ErrGit(base) == MkErr("Git", base, None, << >>)
ErrFaur(pkg) == MkErr("Faur", pkg, None, << >>)
ErrDoesntExist(pkg) == MkErr("DoesntExist", pkg, None, << >>)
ErrDoesntExistWithParent(par, pkg) == MkErr("DoesntExistWithParent", pkg, Some(par), << >>)
ErrResolutions(es) == MkErr("Resolutions", << >>, None, es)

(***************************************************************************)
(* The worlds a run is checked in: the local and sync databases, the AUR,  *)
(* the clone directory, and the batches requested.                         *)
(***************************************************************************)
Ge(n) == n \o <<">", "=", "1">>
Eq(n) == n \o <<"=", "2">>

LocalPkg(n, prov) == [name |-> n, provides |-> prov]
SyncPkg(n, prov, deps) == [name |-> n, provides |-> prov, depends |-> deps]
AurPkg(n, base, prov) == [name |-> n, package_base |-> base, provides |-> prov]
SubPkg(n, deps) == [pkgname |-> n, depends |-> deps]
Manifest(dir, base, mk, deps, prov, pkgs) ==
    [dir |-> dir, ok |-> TRUE, pkgbase |-> base, makedepends |-> mk,
     depends |-> deps, provides |-> prov, pkgs |-> pkgs]
Unparsable(dir) ==
    [dir |-> dir, ok |-> FALSE, pkgbase |-> << >>, makedepends |-> << >>,
     depends |-> << >>, provides |-> << >>, pkgs |-> << >>]

\* s is installed and provides v; o and q are official and depend on each
\* other, q provides w; p is an AUR base with the split package b, and
\* depends on v twice, with two version constraints.
DbPlain ==
    [localdb |-> <<LocalPkg(<<"s">>, {<<"v">>})>>,
     syncdb  |-> <<SyncPkg(<<"o">>, {}, <<(<<"s">>), (<<"q">>)>>),
                   SyncPkg(<<"q">>, {<<"w">>}, <<(<<"o">>)>>)>>,
     aur     |-> <<AurPkg(<<"p">>, <<"p">>, {}), AurPkg(<<"b">>, <<"p">>, {})>>,
     info_fails |-> {}, search_fails |-> {}, git_fails |-> {},
     srcinfo |-> {Manifest(<<"p">>, <<"p">>, <<Ge(<<"v">>)>>, << >>, << >>,
                           <<SubPkg(<<"p">>, << >>), SubPkg(<<"b">>, <<Eq(<<"v">>)>>)>>)},
     clones0 |-> {},
     batches |-> {<<(<<"p">>)>>, <<(<<"w">>), (<<"s">>)>>, <<(<<"b">>), (<<"p">>)>>,
                  <<(<<"p">>), (<<"p">>)>>, <<Ge(<<"o">>), (<<"o">>)>>}]

\* u is known nowhere; the info fetch of f fails; the search for e fails;
\* the clone of h fails; the .SRCINFO of k does not parse; official o
\* depends on u; AUR g provides r and depends on u and f.
DbErr ==
    [localdb |-> << >>,
     syncdb  |-> <<SyncPkg(<<"o">>, {}, <<(<<"u">>)>>)>>,
     aur     |-> <<AurPkg(<<"g">>, <<"g">>, {<<"r">>}), AurPkg(<<"h">>, <<"h">>, {}),
                   AurPkg(<<"k">>, <<"k">>, {})>>,
     info_fails |-> {<<"f">>}, search_fails |-> {<<"e">>}, git_fails |-> {<<"h">>},
     srcinfo |-> {Manifest(<<"g">>, <<"g">>, << >>, <<(<<"u">>), (<<"f">>)>>, <<(<<"r">>)>>,
                           <<SubPkg(<<"g">>, <<(<<"u">>), (<<"f">>)>>)>>),
                  Unparsable(<<"k">>)},
     clones0 |-> {<<"k">>},
     batches |-> {<<(<<"u">>), (<<"f">>)>>, <<(<<"o">>), (<<"h">>)>>, <<(<<"r">>), (<<"o">>)>>,
                  <<(<<"k">>), (<<"e">>)>>, <<(<<"u">>), (<<"u">>)>>,
                  <<(<<"u">>), (<<"f">>), (<<"o">>)>>}]

\* y is installed and official, and the sync y also provides x; b is
\* installed and is also a split package of the AUR base p, like c, which
\* official r depends on.
DbAlias ==
    [localdb |-> <<LocalPkg(<<"y">>, {}), LocalPkg(<<"b">>, {})>>,
     syncdb  |-> <<SyncPkg(<<"y">>, {<<"x">>}, << >>),
                   SyncPkg(<<"r">>, {}, <<(<<"c">>)>>)>>,
     aur     |-> <<AurPkg(<<"p">>, <<"p">>, {}), AurPkg(<<"b">>, <<"p">>, {}),
                   AurPkg(<<"c">>, <<"p">>, {})>>,
     info_fails |-> {}, search_fails |-> {}, git_fails |-> {},
     srcinfo |-> {Manifest(<<"p">>, <<"p">>, << >>, << >>, << >>,
                           <<SubPkg(<<"p">>, << >>), SubPkg(<<"b">>, << >>),
                             SubPkg(<<"c">>, << >>)>>)},
     clones0 |-> {},
     batches |-> {<<(<<"x">>), (<<"y">>)>>, <<(<<"x">>)>>, <<(<<"p">>), (<<"b">>)>>,
                  <<(<<"r">>), (<<"p">>)>>, <<(<<"r">>), (<<"p">>), (<<"b">>)>>}]

\* The sync y provides x and depends on x; the AUR z is found for t by the
\* provides search, its .SRCINFO does not list t, and it depends on t.
DbCycle ==
    [localdb |-> << >>,
     syncdb  |-> <<SyncPkg(<<"y">>, {<<"x">>}, <<(<<"x">>)>>)>>,
     aur     |-> <<AurPkg(<<"z">>, <<"z">>, {<<"t">>})>>,
     info_fails |-> {}, search_fails |-> {}, git_fails |-> {},
     srcinfo |-> {Manifest(<<"z">>, <<"z">>, << >>, <<(<<"t">>)>>, << >>,
                           <<SubPkg(<<"z">>, <<(<<"t">>)>>)>>)},
     clones0 |-> {},
     batches |-> {<<(<<"x">>)>>, <<(<<"t">>)>>, <<(<<"y">>)>>}]

\* clone_dir holds an older checkout named b whose .SRCINFO is of the base
\* p, from before p depended on s; the AUR has p and b, both of base p.
DbStale ==
    [localdb |-> <<LocalPkg(<<"s">>, {})>>,
     syncdb  |-> << >>,
     aur     |-> <<AurPkg(<<"p">>, <<"p">>, {}), AurPkg(<<"b">>, <<"p">>, {})>>,
     info_fails |-> {}, search_fails |-> {}, git_fails |-> {},
     srcinfo |-> {Manifest(<<"b">>, <<"p">>, << >>, << >>, << >>,
                           <<SubPkg(<<"p">>, << >>), SubPkg(<<"b">>, << >>)>>),
                  Manifest(<<"p">>, <<"p">>, << >>, <<(<<"s">>)>>, << >>,
                           <<SubPkg(<<"p">>, << >>), SubPkg(<<"b">>, << >>)>>)},
     clones0 |-> {<<"b">>},
     batches |-> {<<(<<"b">>), (<<"p">>)>>}]

Dbs == {DbPlain, DbErr, DbAlias, DbCycle, DbStale}

\* a run: the databases, the requested names and the pool's max_size
Worlds ==
    UNION {{[db |-> d, batch |-> b, size |-> n] : b \in d.batches, n \in 1..PoolSize}
             : d \in Dbs}

(***************************************************************************)
(* Resolution and the calls of resolve_one.                                *)
(***************************************************************************)
ResolutionDefault ==
    [to_install |-> {}, to_build |-> {}, satisfied |-> {}, provided |-> {}]

\* HashSet<Buildable>::contains(&str): by the borrowed name.
BuildNames(r) == {b.name : b \in r.to_build}

seen(r, pkg) ==
    \/ pkg \in r.provided
    \/ pkg \in r.satisfied
    \/ pkg \in r.to_install
    \/ pkg \in BuildNames(r)

Up(t) == SubSeq(t, 1, Len(t) - 1)
Kids(t, n) == {t \o <<i>> : i \in 1..n}

NewTask(raw, parent) ==
    [raw |-> raw, parent |-> parent, pc |-> "seen", holds |-> FALSE,
     dir |-> None, man |-> None, prnt |-> None, deps |-> << >>,
     errs |-> << >>, out |-> None, snap |-> None]

\* (variant: the version demand is kept)
PkgRaw(t) == tasks[t].raw

\* let pkg = strip_version(pkg_raw)
Pkg(t) == strip_version(tasks[t].raw)

\* The task t becomes tk; nothing else changes in the call tree.
Step(t, tk) == tasks' = [tasks EXCEPT ![t] = tk] /\ rerrs' = rerrs

\* (variant: an error is dropped once the caller has collected one)
ReturnFailFast(t, out) ==
    /\ tasks' = [q \in DOMAIN tasks |->
                   IF q = t THEN [tasks[t] EXCEPT !.pc = "done", !.out = out,
                                                  !.dir = None, !.man = None,
                                                  !.snap = None]
                   ELSE IF q = Up(t) /\ out # None /\ tasks[q].errs = << >>
                        THEN [tasks[q] EXCEPT !.errs = Append(@, out[1])]
                   ELSE tasks[q]]
    /\ rerrs' = IF Len(t) = 1 /\ out # None /\ rerrs = << >>
                THEN Append(rerrs, out[1]) ELSE rerrs

\* resolve_one returns out; an error is pushed onto the Validated of the
\* caller's par_iter, in the order in which the calls complete.
Return(t, out) ==
    /\ tasks' = [q \in DOMAIN tasks |->
                   IF q = t THEN [tasks[t] EXCEPT !.pc = "done", !.out = out,
                                                  !.dir = None, !.man = None,
                                                  !.snap = None]
                   ELSE IF q = Up(t) /\ out # None
                        THEN [tasks[q] EXCEPT !.errs = Append(@, out[1])]
                   ELSE tasks[q]]
    /\ rerrs' = IF Len(t) = 1 /\ out # None THEN Append(rerrs, out[1]) ELSE rerrs

\* (variant: only the first dependency is resolved)
RecurseFirstOnly(t, tk, deps, prnt) ==
    LET ds  == SubSeq(deps, 1, IF deps = << >> THEN 0 ELSE 1)
        new == IF Len(t) < MaxDepth THEN Kids(t, Len(ds)) ELSE {}
    IN  /\ tasks' = [q \in DOMAIN tasks \cup new |->
                       IF q = t THEN [tk EXCEPT !.pc = "wait", !.deps = ds,
                                                !.dir = None, !.man = None]
                       ELSE IF q \in new THEN NewTask(ds[q[Len(q)]], Some(prnt))
                       ELSE tasks[q]]
        /\ rerrs' = rerrs

\* deps.into_par_iter().map(|d| resolve_one(.., Some(&prnt), d)): one call
\* per dependency; t waits for them.  Calls nested deeper than MaxDepth are
\* not followed, and t then waits for ever.
Recurse(t, tk, deps, prnt) ==
    LET new == IF Len(t) < MaxDepth THEN Kids(t, Len(deps)) ELSE {}
    IN  /\ tasks' = [q \in DOMAIN tasks \cup new |->
                       IF q = t THEN [tk EXCEPT !.pc = "wait", !.deps = deps,
                                                !.dir = None, !.man = None]
                       ELSE IF q \in new THEN NewTask(deps[q[Len(q)]], Some(prnt))
                       ELSE tasks[q]]
        /\ rerrs' = rerrs

Raise(e) == raised' = raised (+) SetToBag({e})

NoHistory == UNCHANGED <<raised, fetched, work>>
Others == UNCHANGED <<world, sv_in, sv_out, bo_in, bo_pc, bo_out>>
NoLock == UNCHANGED lock

\* (variant: the collection stops at the first error)
CollectFirst(errs) == IF errs = << >> THEN None ELSE Some(ErrResolutions(<<errs[1]>>))

\* collect::<Validated<(), Error<E>>>().ok().map_err(Resolutions): every
\* error of the calls, once all of them have completed.
Collect(errs) == IF errs = << >> THEN None ELSE Some(ErrResolutions(errs))

\* resolve, lines 165-172: the empty Resolution, one call per requested name.
ResolveStart ==
    /\ rpc = "start"
    /\ rpc' = "collect"
    /\ res' = ResolutionDefault
    /\ tasks' = [q \in Kids(<< >>, Len(world.batch)) |->
                   NewTask(world.batch[q[1]], None)]
    /\ UNCHANGED <<clones, pool, rerrs, ret>>
    /\ NoHistory /\ Others /\ NoLock

\* resolve, lines 172-183: every call has completed; the collected errors,
\* or the Resolution taken out of the Arc and the Mutex.
ResolveReturn ==
    /\ rpc = "collect"
    /\ \A q \in Kids(<< >>, Len(world.batch)) : tasks[q].pc = "done"
    /\ rpc' = "returned"
    /\ ret' = IF Collect(rerrs) = None
              THEN [ok |-> TRUE, res |-> res, err |-> None]
              ELSE [ok |-> FALSE, res |-> ResolutionDefault, err |-> Collect(rerrs)]
    /\ UNCHANGED <<clones, pool, res, tasks, rerrs>>
    /\ NoHistory /\ Others /\ NoLock

\* mutx.lock(), lines 206, 233, 247 and 315: the guard is handed to one
\* call at a time; the others block.
Lock(t) ==
    /\ tasks[t].pc \in {"seen", "satisfied", "official", "buildable"}
    /\ lock = None
    /\ lock' = Some(t)
    /\ UNCHANGED <<clones, pool, res, tasks, rpc, rerrs, ret>>
    /\ NoHistory /\ Others

\* (variant: the guard of the seen check lives on after the check)
SeenCheckKeep(t) ==
    /\ tasks[t].pc = "seen"
    /\ lock = Some(t)
    /\ lock' = lock
    /\ IF seen(res, Pkg(t))
       THEN Return(t, None)
       ELSE Step(t, [tasks[t] EXCEPT !.pc = "local_get",
                                     !.snap = Some([res |-> res, cl |-> clones])])
    /\ UNCHANGED <<clones, pool, res, rpc, ret>>
    /\ NoHistory /\ Others

\* lines 204-209: the lock is taken for the seen check only.
SeenCheck(t) ==
    /\ tasks[t].pc = "seen"
    /\ lock = Some(t)
    /\ lock' = None
    /\ IF seen(res, Pkg(t))
       THEN Return(t, None)
       ELSE Step(t, [tasks[t] EXCEPT !.pc = "local_get",
                                     !.snap = Some([res |-> res, cl |-> clones])])
    /\ UNCHANGED <<clones, pool, res, rpc, ret>>
    /\ NoHistory /\ Others

\* pool.get(), lines 220 and 238: an idle connection is handed out.
PoolGet(t) ==
    /\ tasks[t].pc \in {"local_get", "sync_get"}
    /\ pool > 0
    /\ pool' = pool - 1
    /\ Step(t, [tasks[t] EXCEPT !.holds = TRUE,
                  !.pc = IF @ = "local_get" THEN "local_query" ELSE "sync_query"])
    /\ UNCHANGED <<clones, res, rpc, ret>>
    /\ NoHistory /\ Others /\ NoLock

\* pool.get()?: no connection became idle within the pool's timeout.
PoolTimeout(t) ==
    /\ tasks[t].pc \in {"local_get", "sync_get"}
    /\ pool = 0
    /\ Return(t, Some(ErrR2D2))
    /\ Raise(ErrR2D2)
    /\ UNCHANGED <<clones, pool, res, rpc, ret, fetched, work>>
    /\ Others /\ NoLock

\* (variant: the local databases are not consulted)
LocalQueryMiss(t) ==
    /\ tasks[t].pc = "local_query"
    /\ Step(t, [tasks[t] EXCEPT !.holds = FALSE, !.pc = "sync_get"])
    /\ pool' = pool + 1
    /\ UNCHANGED <<clones, res, rpc, ret>>
    /\ NoHistory /\ Others /\ NoLock

\* lines 222-226: installed, or satisfied by an installed package; the
\* handle is dropped at the end of the block.
LocalQuery(t) ==
    /\ tasks[t].pc = "local_query"
    /\ LET pr == Pkg(t)
           satisfied == DbPkg(world.db.localdb, pr)
                        \/ FindSatisfier(world.db.localdb, pr) # None
       IN  Step(t, [tasks[t] EXCEPT !.holds = FALSE,
                      !.pc = IF satisfied THEN "satisfied" ELSE "sync_get"])
    /\ pool' = pool + 1
    /\ UNCHANGED <<clones, res, rpc, ret>>
    /\ NoHistory /\ Others /\ NoLock

\* lines 232-236
InsertSatisfied(t) ==
    /\ tasks[t].pc = "satisfied"
    /\ lock = Some(t)
    /\ lock' = None
    /\ res' = [res EXCEPT !.satisfied = @ \cup {Pkg(t)}]
    /\ work' = work (+) SetToBag({DepName(tasks[t].raw)})
    /\ Return(t, None)
    /\ UNCHANGED <<clones, pool, rpc, ret, raised, fetched>>
    /\ Others

\* (variant: without a satisfier the handle is kept until the call returns)
SyncQueryKeep(t) ==
    /\ tasks[t].pc = "sync_query"
    /\ LET official == FindSatisfier(world.db.syncdb, Pkg(t))
       IN  IF official # None
           THEN Step(t, [tasks[t] EXCEPT !.pc = "official",
                           !.prnt = Some(official[1].name),
                           !.deps = official[1].depends])
           ELSE Step(t, [tasks[t] EXCEPT !.pc = "aur"])
    /\ pool' = pool
    /\ UNCHANGED <<clones, res, rpc, ret>>
    /\ NoHistory /\ Others /\ NoLock

\* lines 240-241 and 281-285: the satisfier in the sync databases; without
\* one the handle is dropped.
SyncQuery(t) ==
    /\ tasks[t].pc = "sync_query"
    /\ LET official == FindSatisfier(world.db.syncdb, Pkg(t))
       IN  IF official # None
           THEN /\ Step(t, [tasks[t] EXCEPT !.pc = "official",
                              !.prnt = Some(official[1].name),
                              !.deps = official[1].depends])
                /\ pool' = pool
           ELSE /\ Step(t, [tasks[t] EXCEPT !.pc = "aur", !.holds = FALSE])
                /\ pool' = pool + 1
    /\ UNCHANGED <<clones, res, rpc, ret>>
    /\ NoHistory /\ Others /\ NoLock

\* lines 244-250: the canonical name of the satisfier goes to to_install.
InsertOfficial(t) ==
    /\ tasks[t].pc = "official"
    /\ lock = Some(t)
    /\ lock' = None
    /\ res' = [res EXCEPT !.to_install = @ \cup {tasks[t].prnt[1]}]
    /\ work' = work (+) SetToBag({DepName(tasks[t].raw)})
    /\ Step(t, [tasks[t] EXCEPT !.pc = "official_drop"])
    /\ UNCHANGED <<clones, pool, rpc, ret, raised, fetched>>
    /\ Others

\* (variant: the handle is kept across the calls for the dependencies)
RecurseOfficialKeep(t) ==
    /\ tasks[t].pc = "official_drop"
    /\ pool' = pool
    /\ Recurse(t, tasks[t], tasks[t].deps, tasks[t].prnt[1])
    /\ UNCHANGED <<clones, res, rpc, ret>>
    /\ NoHistory /\ Others /\ NoLock

\* lines 252-279: the handle is dropped, then one call per dependency.
RecurseOfficial(t) ==
    /\ tasks[t].pc = "official_drop"
    /\ pool' = pool + 1
    /\ Recurse(t, [tasks[t] EXCEPT !.holds = FALSE], tasks[t].deps, tasks[t].prnt[1])
    /\ UNCHANGED <<clones, res, rpc, ret>>
    /\ NoHistory /\ Others /\ NoLock

\* (variant: the unknown name is reported without the package requiring it)
pull_or_clone_orphan(cl, db, parent, pkg) ==
    IF is_aur_package_fast(cl, pkg)
    THEN [err |-> None, dir |-> Some(pkg), cl |-> cl]
    ELSE IF pkg \in db.info_fails
    THEN [err |-> Some(ErrFaur(pkg)), dir |-> None, cl |-> cl]
    ELSE
      LET info  == FaurInfo(db, pkg)
          ps    == IF pkg \in db.search_fails THEN << >> ELSE FaurSearch(db, pkg)
          found == SelectSeq(ps, LAMBDA p : pkg \in p.provides)
          rec   == IF info # << >> THEN Some(info[Len(info)])
                   ELSE IF found # << >> THEN Some(found[1])
                   ELSE None
      IN  IF rec = None
          THEN [err |-> Some(ErrDoesntExist(pkg)), dir |-> None, cl |-> cl]
          ELSE LET base == rec[1].package_base
               IN  IF is_aur_package_fast(cl, base)
                   THEN [err |-> None, dir |-> Some(base), cl |-> cl]
                   ELSE IF base \in db.git_fails
                   THEN [err |-> Some(ErrGit(base)), dir |-> None, cl |-> cl]
                   ELSE [err |-> None, dir |-> Some(base), cl |-> cl \cup {base}]

\* pull_or_clone, lines 365-405: the directory of the clone to read, or the
\* error; cl is the content of clone_dir before and after.
pull_or_clone(cl, db, parent, pkg) ==
    IF is_aur_package_fast(cl, pkg)
    THEN [err |-> None, dir |-> Some(pkg), cl |-> cl]
    ELSE IF pkg \in db.info_fails
    THEN [err |-> Some(ErrFaur(pkg)), dir |-> None, cl |-> cl]
    ELSE
      LET info  == FaurInfo(db, pkg)
          ps    == IF pkg \in db.search_fails THEN << >> ELSE FaurSearch(db, pkg)
          found == SelectSeq(ps, LAMBDA p : pkg \in p.provides)
          rec   == IF info # << >> THEN Some(info[Len(info)])
                   ELSE IF found # << >> THEN Some(found[1])
                   ELSE None
      IN  IF rec = None
          THEN [err |-> Some(IF parent # None
                             THEN ErrDoesntExistWithParent(parent[1], pkg)
                             ELSE ErrDoesntExist(pkg)),
                dir |-> None, cl |-> cl]
          ELSE LET base == rec[1].package_base
               IN  IF is_aur_package_fast(cl, base)
                   THEN [err |-> None, dir |-> Some(base), cl |-> cl]
                   ELSE IF base \in db.git_fails
                   THEN [err |-> Some(ErrGit(base)), dir |-> None, cl |-> cl]
                   ELSE [err |-> None, dir |-> Some(base), cl |-> cl \cup {base}]

\* line 288
PullOrClone(t) ==
    /\ tasks[t].pc = "aur"
    /\ LET r == pull_or_clone(clones, world.db, tasks[t].parent, Pkg(t))
       IN  /\ clones' = r.cl
           /\ IF r.err # None
              THEN Return(t, r.err) /\ Raise(r.err[1])
              ELSE Step(t, [tasks[t] EXCEPT !.pc = "parse", !.dir = r.dir])
                   /\ raised' = raised
    /\ fetched' = fetched \cup {Pkg(t)}
    /\ UNCHANGED <<pool, res, rpc, ret, work>>
    /\ Others /\ NoLock

\* line 290
ParseSrcinfo(t) ==
    /\ tasks[t].pc = "parse"
    /\ LET info == ParseFile(world.db, tasks[t].dir[1])
       IN  IF info = None
           THEN Return(t, Some(ErrSrcinfo(tasks[t].dir[1])))
                /\ Raise(ErrSrcinfo(tasks[t].dir[1]))
           ELSE Step(t, [tasks[t] EXCEPT !.pc = "buildable", !.man = info])
                /\ raised' = raised
    /\ UNCHANGED <<clones, pool, res, rpc, ret, fetched, work>>
    /\ Others /\ NoLock

\* lines 292-309: the dependencies of the base and of every package.
ManifestDeps(info) ==
    Range(info.makedepends) \cup Range(info.depends)
      \cup UNION {Range(info.pkgs[i].depends) : i \in DOMAIN info.pkgs}

\* lines 301-303: every package name is sneaked out as a provided name.
ManifestProv(info) == {info.pkgs[i].pkgname : i \in DOMAIN info.pkgs}

\* (variant: the Buildable is inserted, its provided names are not)
InsertBuildOnly(r, info) ==
    [r EXCEPT !.to_build = @ \cup {[name |-> info.pkgbase, deps |-> ManifestDeps(info)]}]

\* lines 315-324: the Buildable and the provided names, under one lock.
\* HashSet<Buildable> hashes by name and compares with the derived
\* PartialEq, that is by name and deps.
InsertBuild(r, info) ==
    [r EXCEPT !.to_build = @ \cup {[name |-> info.pkgbase, deps |-> ManifestDeps(info)]},
              !.provided = @ \cup Range(info.provides) \cup ManifestProv(info)]

\* lines 291-334
RecurseBuildable(t) ==
    /\ tasks[t].pc = "buildable"
    /\ lock = Some(t)
    /\ lock' = None
    /\ LET info == tasks[t].man[1]
       IN  /\ res' = InsertBuild(res, info)
           /\ Recurse(t, tasks[t], SeqOfSet(ManifestDeps(info)), info.pkgbase)
    /\ work' = work (+) SetToBag({DepName(tasks[t].raw)})
    /\ UNCHANGED <<clones, pool, rpc, ret, raised, fetched>>
    /\ Others

\* lines 277-279 and 332-340
Join(t) ==
    /\ tasks[t].pc = "wait"
    /\ \A q \in Kids(t, Len(tasks[t].deps)) : q \in DOMAIN tasks /\ tasks[q].pc = "done"
    /\ Return(t, Collect(tasks[t].errs))
    /\ UNCHANGED <<clones, pool, res, rpc, ret>>
    /\ NoHistory /\ Others /\ NoLock

(***************************************************************************)
(* strip_version and build_order called on their own.                      *)
(***************************************************************************)
NotCalled == <<"?">>

StripVersion ==
    /\ sv_out = NotCalled
    /\ sv_out' = strip_version(sv_in)
    /\ UNCHANGED <<sv_in, bo_in, bo_pc, bo_out>>
    /\ UNCHANGED rvars

\* build_order, lines 413-420: todo!() panics.
build_order(to_build) == [panicked |-> TRUE, plan |-> << >>]

BuildOrder ==
    /\ bo_pc = "idle"
    /\ bo_pc' = IF build_order(bo_in).panicked THEN "panicked" ELSE "returned"
    /\ bo_out' = build_order(bo_in).plan
    /\ UNCHANGED <<sv_in, sv_out, bo_in>>
    /\ UNCHANGED rvars

(***************************************************************************)
(* The specifications.                                                     *)
(***************************************************************************)
RECURSIVE Strings(_)
Strings(n) ==
    IF n = 0 THEN {<< >>}
    ELSE LET S == Strings(n - 1)
         IN  S \cup {Append(x, c) : x \in S, c \in Chars}

\* the strings of test::version_stripping, lines 439-440
Gcc6Demand == <<"g", "c", "c", "6", "=", "6", ".", "5", ".", "0", "-", "7">>
GlibcDemand == <<"g", "l", "i", "b", "c", ">", "=", "2", ".", "2", "5">>

OrderNames == {<<"x">>, <<"y">>, <<"z">>}

\* the sets of Buildables over OrderNames, at most one per name
BuildSets ==
    LET Choice == [OrderNames -> {None} \cup {Some(d) : d \in SUBSET OrderNames}]
    IN  {{[name |-> n, deps |-> f[n][1]] : n \in {m \in OrderNames : f[m] # None}}
           : f \in Choice}

IdleResolver ==
    /\ pool = world.size
    /\ res = ResolutionDefault
    /\ lock = None
    /\ tasks = << >>
    /\ rerrs = << >>
    /\ ret = [ok |-> FALSE, res |-> ResolutionDefault, err |-> None]
    /\ raised = EmptyBag
    /\ fetched = {}
    /\ work = EmptyBag

IdleStrip == sv_in = << >> /\ sv_out = NotCalled
IdleOrder == bo_in = {} /\ bo_pc = "idle" /\ bo_out = << >>

\* resolve is called with a pool and a batch of names.
Init ==
    /\ world \in Worlds
    /\ rpc = "start"
    /\ IdleResolver
    /\ clones = world.db.clones0
    /\ IdleStrip /\ IdleOrder

Next ==
    \/ ResolveStart
    \/ ResolveReturn
    \/ \E t \in DOMAIN tasks : Lock(t)
    \/ \E t \in DOMAIN tasks : SeenCheck(t)
    \/ \E t \in DOMAIN tasks : PoolGet(t)
    \/ \E t \in DOMAIN tasks : PoolTimeout(t)
    \/ \E t \in DOMAIN tasks : LocalQuery(t)
    \/ \E t \in DOMAIN tasks : InsertSatisfied(t)
    \/ \E t \in DOMAIN tasks : SyncQuery(t)
    \/ \E t \in DOMAIN tasks : InsertOfficial(t)
    \/ \E t \in DOMAIN tasks : RecurseOfficial(t)
    \/ \E t \in DOMAIN tasks : PullOrClone(t)
    \/ \E t \in DOMAIN tasks : ParseSrcinfo(t)
    \/ \E t \in DOMAIN tasks : RecurseBuildable(t)
    \/ \E t \in DOMAIN tasks : Join(t)

Spec == Init /\ [][Next]_vars

\* strip_version is called with a string.
InitStrip ==
    /\ world \in {CHOOSE w \in Worlds : TRUE}
    /\ rpc = "idle"
    /\ clones = {}
    /\ IdleResolver
    /\ sv_in \in Strings(MaxLen) \cup {Gcc6Demand, GlibcDemand} /\ sv_out = NotCalled
    /\ IdleOrder

NextStrip == StripVersion

SpecStrip == InitStrip /\ [][NextStrip]_vars

\* build_order is called with a set of Buildables.
InitOrder ==
    /\ world \in {CHOOSE w \in Worlds : TRUE}
    /\ rpc = "idle"
    /\ clones = {}
    /\ IdleResolver
    /\ IdleStrip
    /\ bo_in \in BuildSets /\ bo_pc = "idle" /\ bo_out = << >>

NextOrder == BuildOrder

SpecOrder == InitOrder /\ [][NextOrder]_vars

FairSpec == Spec /\ WF_vars(Next)

(***************************************************************************)
(* Properties.                                                             *)
(***************************************************************************)
Returned == rpc = "returned"
ReturnedOk == rpc = "returned" /\ ret.ok
TopTasks == Kids(<< >>, Len(world.batch))

\* the sync package of that canonical name
SyncByName(n) == {world.db.syncdb[i] : i \in {j \in DOMAIN world.db.syncdb :
                                               world.db.syncdb[j].name = n}}

\* every name the result has to account for: the requested names and the
\* dependencies of everything recorded for installation or building
Required(r) ==
    Range(world.batch)
      \cup UNION {Range(p.depends) : p \in UNION {SyncByName(n) : n \in r.to_install}}
      \cup UNION {b.deps : b \in r.to_build}

\* the package bases that supply the name d
Suppliers(d) ==
    {world.db.aur[i].package_base : i \in {j \in DOMAIN world.db.aur :
        world.db.aur[j].name = d \/ d \in world.db.aur[j].provides}}
      \cup {m.pkgbase : m \in {x \in world.db.srcinfo :
              x.ok /\ (d = x.pkgbase \/ d \in ManifestProv(x) \/ d \in Range(x.provides))}}

Accounted(r, d) ==
    \/ d \in r.satisfied
    \/ d \in r.provided
    \/ LET o == FindSatisfier(world.db.syncdb, d)
       IN  o # None /\ o[1].name \in r.to_install
    \/ Suppliers(d) \cap BuildNames(r) # {}

\* C1: whenever resolve returns Ok, every requested name and every
\* dependency of every package in to_install or to_build is, once
\* normalized, in satisfied or provided, or has its official satisfier in
\* to_install, or has the package base supplying it in to_build.
C1_TransitivelyClosed ==
    ReturnedOk => \A d \in Required(ret.res) : Accounted(ret.res, strip_version(d))

\* a successful run that recorded a Buildable whose versioned dependency is
\* accounted for under its normalized name only
C1_Witness ==
    /\ ReturnedOk
    /\ \E b \in ret.res.to_build : \E d \in b.deps :
          /\ strip_version(d) # d
          /\ strip_version(d) \in ret.res.satisfied
    /\ ret.res.provided # {}

RECURSIVE LeavesOf(_)
\* the bag of the errors other than Resolutions nested in the errors es
LeavesOf(es) ==
    IF es = << >> THEN EmptyBag
    ELSE (IF Head(es).kind = "Resolutions" THEN LeavesOf(Head(es).es)
          ELSE SetToBag({Head(es)}))
         (+) LeavesOf(Tail(es))

RECURSIVE NonEmptyAll(_)
\* every Resolutions among es, at any depth, holds at least one error
NonEmptyAll(es) ==
    \A i \in DOMAIN es :
        es[i].kind = "Resolutions" => es[i].es # << >> /\ NonEmptyAll(es[i].es)

\* C2: resolve returns Ok exactly when no call raised an error; otherwise it
\* returns a non-empty collection in which every raised error is nested,
\* and no Resolution comes with it.
C2_OkOrAllErrors ==
    Returned =>
        /\ ret.ok <=> raised = EmptyBag
        /\ ret.ok => ret.err = None
        /\ ~ret.ok => /\ ret.err # None
                      /\ ret.res = ResolutionDefault
                      /\ NonEmptyAll(ret.err)
                      /\ LeavesOf(ret.err) = raised

\* a failed run whose errors were raised at two depths of the traversal
C2_Witness ==
    /\ Returned /\ ~ret.ok
    /\ \E i \in DOMAIN ret.err[1].es : ret.err[1].es[i].kind = "Resolutions"
    /\ \E i \in DOMAIN ret.err[1].es : ret.err[1].es[i].kind # "Resolutions"
    /\ BagCardinality(raised) >= 3

FailedTop == {q \in TopTasks : tasks[q].pc = "done" /\ tasks[q].out # None}

\* C3: the collection resolve returns holds exactly one entry per failing
\* top-level branch, in whatever order the branches finished, and every
\* call of the traversal has run to completion.
C3_OneErrorPerBranch ==
    (Returned /\ ~ret.ok) =>
        /\ Len(ret.err[1].es) = Cardinality(FailedTop)
        /\ \A q \in FailedTop : \E i \in DOMAIN ret.err[1].es : ret.err[1].es[i] = tasks[q].out[1]
        /\ \A q \in DOMAIN tasks : tasks[q].pc = "done"

\* both requested names failed, and the second one failed first
C3_Witness ==
    /\ Returned /\ ~ret.ok
    /\ Len(ret.err[1].es) = 2
    /\ ret.err[1].es[1].kind = "Faur"
    /\ ret.err[1].es[2].kind = "DoesntExist"
    /\ tasks[<<1>>].out = Some(ret.err[1].es[2])

\* C4: a name resolved a second time, by a second request, a second
\* dependency path or a lost race on the seen check, leaves to_install,
\* to_build, satisfied and provided as the first resolution left them.
C4_IdempotentDedup ==
    [][\A n \in BagToSet(work') :
          (CopiesIn(n, work) >= 1 /\ CopiesIn(n, work') > CopiesIn(n, work))
             => res' = res]_vars

\* a successful run in which two calls both classified the same base, and
\* to_build holds it once
C4_Witness ==
    /\ ReturnedOk
    /\ \E n \in BagToSet(work) : CopiesIn(n, work) >= 2 /\ n \in BuildNames(ret.res)
    /\ Cardinality(ret.res.to_build) = 1

\* C5: in the Resolution of a successful resolve no name is in more than
\* one of to_install, to_build and satisfied.
C5_Exclusive ==
    ReturnedOk =>
        /\ ret.res.to_install \cap BuildNames(ret.res) = {}
        /\ ret.res.to_install \cap ret.res.satisfied = {}
        /\ BuildNames(ret.res) \cap ret.res.satisfied = {}

LocallyInstalled(n) ==
    DbPkg(world.db.localdb, n) \/ FindSatisfier(world.db.localdb, n) # None

\* C6: a name that is installed locally and is in the official database is
\* never in to_install of the final Resolution.
C6_LocalPriority ==
    ReturnedOk =>
        \A n \in ret.res.to_install :
            ~(LocallyInstalled(n) /\ FindSatisfier(world.db.syncdb, n) # None)

\* the names some recorded package depends on
DependedOn(r) == {strip_version(d) : d \in Required(r) \ Range(world.batch)}

\* C7: a sub-package B of a Buildable base of the batch that another
\* recorded package depends on is never handed to pull_or_clone, is in
\* provided, and is no entry of to_build.
C7_AliasNotFetched ==
    ReturnedOk =>
        \A m \in {x \in world.db.srcinfo : x.ok /\ x.pkgbase \in BuildNames(ret.res)} :
            \A B \in (ManifestProv(m) \ {m.pkgbase}) \cap DependedOn(ret.res) :
                /\ B \notin fetched
                /\ B \in ret.res.provided
                /\ B \notin BuildNames(ret.res)

\* the call t has just found its name unseen, an enclosing call a was made
\* for the same name by the same parent and saw the same Resolution and
\* clone directory at its seen check, and no other call was ever made: what
\* happened between a and t happens again below t, for ever
EndlessNesting(t, a) ==
    /\ tasks[t].pc = "local_get"
    /\ tasks[a].pc = "wait"
    /\ tasks[t].raw = tasks[a].raw
    /\ tasks[t].parent = tasks[a].parent
    /\ tasks[t].snap = tasks[a].snap
    /\ DOMAIN tasks = {SubSeq(t, 1, k) : k \in 1..Len(t)}

\* C8: no name is re-resolved without bound: no call of resolve_one finds
\* itself resolving the name of an enclosing call, for the same parent and
\* with the shared state as that call saw it, every call of the run being
\* one of the enclosing calls.
C8_NoEndlessNesting ==
    \A t \in DOMAIN tasks : \A k \in 1..(Len(t) - 1) : ~EndlessNesting(t, SubSeq(t, 1, k))

\* C8, as a liveness property: every resolve call eventually returns.
C8_Terminates == <>(rpc = "returned")

Markers == {i \in DOMAIN sv_in : sv_in[i] = "=" \/ sv_in[i] = ">"}

\* C9: strip_version returns the text before the first '=' or '>' of its
\* argument, the argument itself when it holds neither, and never a string
\* holding '=' or '>'; "gcc6=6.5.0-7" gives "gcc6", "glibc>=2.25" "glibc".
C9_StripVersion ==
    sv_out # NotCalled =>
        /\ Markers = {} => sv_out = sv_in
        /\ Markers # {} =>
              \E k \in Markers : /\ \A j \in Markers : k <= j
                                 /\ sv_out = SubSeq(sv_in, 1, k - 1)
        /\ \A i \in DOMAIN sv_out : sv_out[i] # "=" /\ sv_out[i] # ">"
        /\ sv_in = Gcc6Demand => sv_out = <<"g", "c", "c", "6">>
        /\ sv_in = GlibcDemand => sv_out = <<"g", "l", "i", "b", "c">>

\* the argument's first marker is '>' and is followed by '='
C9_Witness ==
    /\ sv_in = GlibcDemand
    /\ sv_out = <<"g", "l", "i", "b", "c">>

OrderNamesOf(S) == {b.name : b \in S}

\* the names of S that n depends on, directly or through members of S
RECURSIVE ReachIn(_, _, _)
ReachIn(S, from, k) ==
    IF k = 0 THEN from
    ELSE ReachIn(S, from \cup UNION {b.deps \cap OrderNamesOf(S) :
                                       b \in {x \in S : x.name \in from}}, k - 1)

DepsWithin(S, n) ==
    ReachIn(S, UNION {b.deps \cap OrderNamesOf(S) : b \in {x \in S : x.name = n}},
            Cardinality(S))

Acyclic(S) == \A n \in OrderNamesOf(S) : n \notin DepsWithin(S, n)

\* C10: for an acyclic to_build, build_order returns groups that partition
\* its names, every dependency within to_build lying in an earlier group.
C10_BuildOrderPlan ==
    (bo_pc # "idle" /\ Acyclic(bo_in)) =>
        /\ bo_pc = "returned"
        /\ UNION {Range(bo_out[k]) : k \in DOMAIN bo_out} = OrderNamesOf(bo_in)
        /\ \A k, l \in DOMAIN bo_out : k # l => Range(bo_out[k]) \cap Range(bo_out[l]) = {}
        /\ \A b \in bo_in : \A d \in b.deps \cap OrderNamesOf(bo_in) :
              \E k, l \in DOMAIN bo_out :
                  l < k /\ b.name \in Range(bo_out[k]) /\ d \in Range(bo_out[l])

\* C11: called with a to_build holding a dependency cycle, build_order ends
\* by reporting a cycle error of its own: it returns no plan, it does not
\* abort and it leaves no member of the cycle out.
C11_CycleError ==
    (bo_pc # "idle" /\ ~Acyclic(bo_in)) =>
        /\ bo_pc = "cycle_error"
        /\ bo_out = << >>

\* the Resolution and clone_dir left by the calls when each one, with the
\* calls it makes, completes before the next one starts; ok is FALSE once
\* a call failed or the nesting went deeper than fuel
RECURSIVE SeqOne(_, _, _, _)
RECURSIVE SeqAll(_, _, _, _)
SeqOne(st, parent, raw, fuel) ==
    LET pkg == strip_version(raw)
    IN  IF ~st.ok \/ seen(st.res, pkg) THEN st
        ELSE IF fuel = 0 THEN [st EXCEPT !.ok = FALSE]
        ELSE IF DbPkg(world.db.localdb, pkg) \/ FindSatisfier(world.db.localdb, pkg) # None
        THEN [st EXCEPT !.res.satisfied = @ \cup {pkg}]
        ELSE LET official == FindSatisfier(world.db.syncdb, pkg)
             IN  IF official # None
                 THEN SeqAll([st EXCEPT !.res.to_install = @ \cup {official[1].name}],
                             Some(official[1].name), official[1].depends, fuel - 1)
                 ELSE LET r == pull_or_clone(st.cl, world.db, parent, pkg)
                          info == ParseFile(world.db, r.dir[1])
                      IN  IF r.err # None THEN [st EXCEPT !.ok = FALSE]
                          ELSE IF info = None THEN [st EXCEPT !.ok = FALSE]
                          ELSE SeqAll([st EXCEPT !.res = InsertBuild(@, info[1]),
                                                 !.cl = r.cl],
                                      Some(info[1].pkgbase),
                                      SeqOfSet(ManifestDeps(info[1])), fuel - 1)

SeqAll(st, parent, deps, fuel) ==
    IF deps = << >> THEN st
    ELSE SeqAll(SeqOne(st, parent, Head(deps), fuel), parent, Tail(deps), fuel)

SeqResolve ==
    SeqAll([ok |-> TRUE, res |-> ResolutionDefault, cl |-> world.db.clones0],
           None, world.batch, MaxDepth)

\* C12: the to_install, to_build and satisfied of a successful resolve do
\* not depend on the order in which the calls took their steps: they are
\* the sets that the calls leave when they run one after another.
C12_OrderIndependent ==
    (ReturnedOk /\ SeqResolve.ok) =>
        /\ ret.res.to_install = SeqResolve.res.to_install
        /\ ret.res.to_build = SeqResolve.res.to_build
        /\ ret.res.satisfied = SeqResolve.res.satisfied

Official(n) == FindSatisfier(world.db.syncdb, n) # None

\* C13: a call looks its name up in the sync databases only after the
\* local check came back negative, and goes to the AUR (info, search,
\* clone, parse of the manifest) only after both came back negative: no
\* name that is satisfied locally or is an official package is handed to
\* pull_or_clone or gets a manifest.
C13_LookupOrder ==
    /\ \A t \in DOMAIN tasks :
          /\ tasks[t].pc \in {"sync_get", "sync_query", "official", "official_drop"}
                => ~LocallyInstalled(Pkg(t))
          /\ tasks[t].prnt # None => ~LocallyInstalled(Pkg(t))
          /\ (tasks[t].pc \in {"aur", "parse", "buildable"}
                \/ tasks[t].dir # None \/ tasks[t].man # None)
                => ~LocallyInstalled(Pkg(t)) /\ ~Official(Pkg(t))
    /\ \A n \in fetched : ~LocallyInstalled(n) /\ ~Official(n)

\* a call reads a manifest while the local and the sync databases hold
\* other names, one of them locally satisfied and one official
C13_Witness ==
    /\ \E t \in DOMAIN tasks : tasks[t].pc = "buildable" /\ Pkg(t) \in fetched
    /\ res.satisfied # {}
    /\ res.to_install # {}

\* the manifests a Buildable can have been made from
ManifestsOf(b) ==
    {m \in world.db.srcinfo : m.ok /\ m.pkgbase = b.name /\ ManifestDeps(m) = b.deps}

\* C14: a Buildable and its aliases are inserted in one transition: in
\* every state, for every Buildable of to_build, the names of all packages
\* of its manifest and the provides of its base are in provided.
C14_AtomicAliases ==
    \A b \in res.to_build :
        \E m \in ManifestsOf(b) :
            ManifestProv(m) \cup Range(m.provides) \subseteq res.provided

\* a Buildable with a sub-package of another name is in to_build while
\* another call holds the lock for its seen check
C14_Witness ==
    /\ \E b \in res.to_build : \E m \in ManifestsOf(b) : ManifestProv(m) \ {b.name} # {}
    /\ \E t \in DOMAIN tasks : lock = Some(t) /\ tasks[t].pc = "seen"

\* the calls that hold a connection of the pool
Holders == {t \in DOMAIN tasks : tasks[t].holds}

\* t is at pool.get()
Leasing(t) == tasks[t].pc \in {"local_get", "sync_get"}

\* a step of the call t other than its pool.get() timing out
Advance(t) ==
    \/ Lock(t) \/ SeenCheck(t) \/ PoolGet(t) \/ LocalQuery(t) \/ InsertSatisfied(t)
    \/ SyncQuery(t) \/ InsertOfficial(t) \/ RecurseOfficial(t) \/ PullOrClone(t)
    \/ ParseSrcinfo(t) \/ RecurseBuildable(t) \/ Join(t)

\* some call waits for calls nested deeper than MaxDepth
NotFollowed ==
    \E t \in DOMAIN tasks :
        tasks[t].pc = "wait" /\ \E q \in Kids(t, Len(tasks[t].deps)) : q \notin DOMAIN tasks

\* while a call is unfinished some call can take a step without any
\* pool.get() timing out, and the connections handed out are those held
\* by the calls, never more than max_size
PoolSafe ==
    /\ ((\E t \in DOMAIN tasks : tasks[t].pc # "done") /\ ~NotFollowed)
          => \E u \in DOMAIN tasks : ENABLED Advance(u)
    /\ pool \in 0..world.size
    /\ Cardinality(Holders) = world.size - pool

\* a call at pool.get() stays there until it is handed a connection
GrantOnly ==
    \A t \in DOMAIN tasks :
        Leasing(t) => \/ tasks'[t].pc = tasks[t].pc
                      \/ tasks'[t].holds /\ tasks'[t].pc \in {"local_query", "sync_query"}

\* a call at pool.get() stays there until it is handed a connection or
\* returns the error of the pool
GrantOrError ==
    \A t \in DOMAIN tasks :
        Leasing(t) => \/ tasks'[t].pc = tasks[t].pc
                      \/ tasks'[t].holds /\ tasks'[t].pc \in {"local_query", "sync_query"}
                      \/ /\ tasks'[t].pc = "done"
                         /\ tasks'[t].out = Some(ErrR2D2)
                         /\ pool = 0

\* C15: the pool never deadlocks the resolution, for every max_size from 1
\* on: while a call is unfinished some call can take a step, the
\* connections handed out never exceed max_size, and a call blocked at
\* pool.get() leaves it only by being handed a connection.
C15_AlwaysGranted == []PoolSafe /\ [][GrantOnly]_vars

\* C15, amended: as above, but a call blocked at pool.get() leaves it by
\* being handed a connection or, no connection being idle, by returning
\* the pool's error.
C15_GrantedOrError == []PoolSafe /\ [][GrantOrError]_vars

\* with a pool of one connection, a call is blocked at pool.get() while a
\* sibling holds the connection, and another call has been handed one
\* after waiting
C15_Witness ==
    /\ world.size = 1
    /\ pool = 0
    /\ \E t \in DOMAIN tasks : Leasing(t)
    /\ \E t \in DOMAIN tasks : tasks[t].pc = "done" /\ tasks[t].out = None

\* C16: the connections out of the pool are exactly one per holding call;
\* a call holds a connection only between a pool.get() and the end of the
\* query or insertion it was taken for: none before its first pool.get(),
\* none while it fetches, clones or parses, none while its dependencies
\* are resolved, none once it has returned, with or without an error.
C16_OneHandle ==
    /\ world.size - pool = Cardinality(Holders)
    /\ \A t \in DOMAIN tasks :
          /\ tasks[t].holds =>
                tasks[t].pc \in {"local_query", "sync_query", "official", "official_drop"}
          /\ tasks[t].pc \in {"seen", "local_get", "satisfied", "sync_get", "aur",
                              "parse", "buildable", "wait", "done"} => ~tasks[t].holds

\* with no connection idle, one call waits for its dependencies, one is at
\* the AUR, and one has returned an error
C16_Witness ==
    /\ pool = 0
    /\ \E t \in DOMAIN tasks : tasks[t].pc = "wait"
    /\ \E t \in DOMAIN tasks : tasks[t].pc \in {"aur", "parse", "buildable"}
    /\ \E t \in DOMAIN tasks : tasks[t].pc = "done" /\ tasks[t].out # None

\* the guard is held by a call that is at one of the four lock() sites:
\* not by one that leases a connection, queries a database, is at the AUR,
\* parses a manifest, waits for its dependencies or has returned
LockScope ==
    \A t \in DOMAIN tasks :
        lock = Some(t) => tasks[t].pc \in {"seen", "satisfied", "official", "buildable"}

\* the call holding the guard does nothing but its critical section, which
\* is one read of seen or the insertions of one classification, and which
\* ends with the guard released
CriticalSection ==
    \A t \in DOMAIN tasks :
        lock = Some(t) =>
            \/ lock' = lock /\ tasks'[t] = tasks[t] /\ res' = res
            \/ /\ lock' = None
               /\ \/ tasks[t].pc = "seen" /\ res' = res
                  \/ /\ tasks[t].pc = "satisfied"
                     /\ res' = [res EXCEPT !.satisfied = @ \cup {Pkg(t)}]
                  \/ /\ tasks[t].pc = "official"
                     /\ res' = [res EXCEPT !.to_install = @ \cup {tasks[t].prnt[1]}]
                  \/ /\ tasks[t].pc = "buildable"
                     /\ res' = InsertBuild(res, tasks[t].man[1])

\* C17: no call holds the lock on the Resolution while it leases a
\* connection, queries a database, fetches, searches, clones, parses a
\* manifest or waits for its dependencies: a critical section is one seen
\* read or the insertions of one classification, then the lock is free.
C17_ShortCriticalSections == []LockScope /\ [][CriticalSection]_vars

\* a call holds the lock for its to_install insertion (and a connection),
\* while one call is blocked at lock() and another at pool.get()
C17_Witness ==
    /\ \E t \in DOMAIN tasks : lock = Some(t) /\ tasks[t].pc = "official" /\ tasks[t].holds
    /\ \E t \in DOMAIN tasks : lock # Some(t) /\ tasks[t].pc \in {"seen", "satisfied", "buildable"}
    /\ \E t \in DOMAIN tasks : Leasing(t) /\ pool = 0

\* neither the info query nor the search filtered by provides has a record
NoRecord(pkg) ==
    /\ pkg \notin world.db.info_fails
    /\ FaurInfo(world.db, pkg) = << >>
    /\ \/ pkg \in world.db.search_fails
       \/ SelectSeq(FaurSearch(world.db, pkg), LAMBDA p : pkg \in p.provides) = << >>

\* the packages the call t can have been made for: the sync package that
\* satisfies the name of the enclosing call, by its canonical name, or the
\* package bases whose manifest answers that name and lists t's dependency
RequiredBy(t) ==
    LET up == Pkg(Up(t))
        official == FindSatisfier(world.db.syncdb, up)
    IN  IF official # None THEN {official[1].name}
        ELSE {m.pkgbase : m \in {x \in world.db.srcinfo :
                 /\ x.ok
                 /\ tasks[t].raw \in ManifestDeps(x)
                 /\ up \in ManifestProv(x) \cup Range(x.provides) \cup {x.pkgbase, x.dir}}}

\* the returned call t got as far as pull_or_clone: its name was unseen,
\* neither locally satisfied nor official, and the pool did not fail
AtAur(t) ==
    /\ tasks[t].snap # None
    /\ ~LocallyInstalled(Pkg(t)) /\ ~Official(Pkg(t))
    /\ tasks[t].out # Some(ErrR2D2)

Unresolvable(e) == e.kind \in {"DoesntExist", "DoesntExistWithParent"}

C19_OneBuildablePerName ==
    \A a, b \in res.to_build : a.name = b.name => a = b

\* C20: every dependency stored in the deps of a Buildable of to_build is
\* a normalized name, strip_version leaving it as it is: the makedepends
\* of the base, the depends of the base and those of every package.
C20_DepsNormalized ==
    \A b \in res.to_build : \A d \in b.deps : strip_version(d) = d

====
